---------------------------- MODULE Spec2Model ----------------------------
(***************************************************************************)
(* Workday / pomodoro reconciliation of the Bitrix24 tracker.              *)
(*                                                                         *)
(*   core/workday.py        WorkdayManager  (start, pause, resume, stop,   *)
(*                          reset, get_work_time, get_pause_time)          *)
(*   core/bitrix_client.py  BitrixClient    (get_status and the POSTs)     *)
(*   core/pomodoro.py       PomodoroTimer   (start, stop, skip, tick)      *)
(*   utils/time_parser.py   parse_bitrix_time, parse_time_leaks            *)
(*   bitrix_tracker.py      update_timer, on_pomodoro_break_start/_end     *)
(*                                                                         *)
(* Python values: None is the empty sequence <<>> and a present value v is *)
(* <<v>>; a str is a sequence of one-character strings.  Instants are      *)
(* integer seconds; a naive local datetime is the instant plus the local   *)
(* UTC offset.                                                             *)
(***************************************************************************)
EXTENDS Integers, Sequences, FiniteSets, TLC

VARIABLES
    now,        \* the instant, in seconds (what datetime.now() reads)
    remote,     \* the workday kept by the Bitrix24 server
    workday,    \* WorkdayManager's fields
    pomodoro,   \* PomodoroTimer's fields
    config,     \* the loaded configuration
    op,         \* the handler that ran last
    ret,        \* what it returned
    trace,      \* the remote requests and callbacks it made, in order
    resync,     \* the remote TIME_LEAKS (seconds) and the instant of the last
                \* start() that found the day PAUSED, while nothing else ran
    nbreaks,    \* breaks entered while ticks_only
    ticks_only, \* the timer was started from STOPPED and has only ticked since
    session_ticks, \* ticks the timer has taken in the session it is in
    parse_input,  \* the parts of a TIME_LEAKS value handed to parse_time_leaks
    parse_output, \* what parse_time_leaks returned for it, None before the call
    answers,    \* what the server answers to each attempt of one client call
    reply       \* what that call of BitrixClient gave, None before the call

vars == <<now, remote, workday, pomodoro, config, op, ret, trace, resync,
          nbreaks, ticks_only, session_ticks, parse_input, parse_output,
          answers, reply>>

---------------------------------------------------------------------------
(* Bounds of the model *)

\* the clock advances at most this many single seconds within a day ...
MaxSec == 1
\* ... and at most this many whole days
MaxDays == 1
\* the largest duration, in minutes, a pomodoro session is configured with
MaxMinutes == 1
\* the largest pomodoros_until_long_break
MaxUntilLong == 2
\* tick() completes at most this many work sessions
MaxCount == 3
\* the most colon-separated parts of a TIME_LEAKS value given to the parser
MaxParts == 4

---------------------------------------------------------------------------
(* Program constants *)

Hour == 3600
Minute == 60
DayHours == 24

None == <<>>
Some(v) == <<v>>
Val(o) == o[1]

\* the UTC offset of the machine (astimezone()) and of the server ("+05:00")
LocalUtcOffset == 3 * Hour
ServerUtcOffset == 5 * Hour

\* datetime.now(): naive local time
datetime_now(t) == t + LocalUtcOffset

---------------------------------------------------------------------------
(* Strings *)

DigitChars == <<"0", "1", "2", "3", "4", "5", "6", "7", "8", "9">>

IsDigit(c) == \E i \in 1..10 : DigitChars[i] = c

DigitVal(c) == (CHOOSE i \in 1..10 : DigitChars[i] = c) - 1

RECURSIVE Decimal(_)
Decimal(n) == IF n < 10 THEN <<DigitChars[n + 1]>>
              ELSE Decimal(n \div 10) \o <<DigitChars[(n % 10) + 1]>>

\* "%02d"
TwoDigits(n) == IF n < 10 THEN <<"0">> \o Decimal(n) ELSE Decimal(n)

\* the server's rendering of a duration: "HH:MM:SS"
FormatHMS(secs) ==
    TwoDigits(secs \div Hour) \o <<":">> \o
    TwoDigits((secs % Hour) \div Minute) \o <<":">> \o
    TwoDigits(secs % Minute)

\* str.split(sep)
RECURSIVE Split(_, _)
Split(s, sep) ==
    IF \A i \in 1..Len(s) : s[i] # sep THEN <<s>>
    ELSE LET k == CHOOSE i \in 1..Len(s) :
                      s[i] = sep /\ \A j \in 1..(i - 1) : s[j] # sep
         IN  <<SubSeq(s, 1, k - 1)>> \o Split(SubSeq(s, k + 1, Len(s)), sep)

\* str.strip() of blanks
RECURSIVE Strip(_)
Strip(s) ==
    IF s = <<>> THEN s
    ELSE IF s[1] = " " THEN Strip(Tail(s))
    ELSE IF s[Len(s)] = " " THEN Strip(SubSeq(s, 1, Len(s) - 1))
    ELSE s

RECURSIVE DigitsValue(_, _)
DigitsValue(s, acc) ==
    IF s = <<>> THEN acc
    ELSE IF s[1] = "_" THEN DigitsValue(Tail(s), acc)
    ELSE DigitsValue(Tail(s), 10 * acc + DigitVal(s[1]))

\* the digits of an int literal: digits, single underscores between them
IsDigitRun(s) ==
    /\ s # <<>>
    /\ \A i \in 1..Len(s) : IsDigit(s[i]) \/ s[i] = "_"
    /\ IsDigit(s[1]) /\ IsDigit(s[Len(s)])
    /\ \A i \in 1..(Len(s) - 1) : ~(s[i] = "_" /\ s[i + 1] = "_")

\* int(s): [ok |-> FALSE] stands for ValueError
int(s) ==
    LET t == Strip(s)
        signed == t # <<>> /\ t[1] \in {"+", "-"}
        body == IF signed THEN Tail(t) ELSE t
    IN  IF IsDigitRun(body)
        THEN [ok |-> TRUE,
              val |-> IF signed /\ t[1] = "-" THEN 0 - DigitsValue(body, 0)
                      ELSE DigitsValue(body, 0)]
        ELSE [ok |-> FALSE, val |-> 0]

\* a parse_time_leaks that does not check the ranges of minutes and seconds
parse_time_leaks_any_range(time_leaks_str) ==
    IF time_leaks_str = <<>> THEN 0
    ELSE LET parts == Split(time_leaks_str, ":")
         IN  IF Len(parts) # 3 THEN 0
             ELSE LET hours == int(parts[1])
                      minutes == int(parts[2])
                      seconds == int(parts[3])
                  IN  IF ~(hours.ok /\ minutes.ok /\ seconds.ok) THEN 0
                      ELSE IF hours.val < 0 \/ minutes.val < 0 \/ seconds.val < 0
                      THEN 0
                      ELSE hours.val * 3600 + minutes.val * 60 + seconds.val

\* utils/time_parser.py parse_time_leaks; the argument is a str or None
parse_time_leaks(time_leaks_str) ==
    IF time_leaks_str = <<>> THEN 0
    ELSE LET parts == Split(time_leaks_str, ":")
         IN  IF Len(parts) # 3 THEN 0
             ELSE LET hours == int(parts[1])
                      minutes == int(parts[2])
                      seconds == int(parts[3])
                  IN  IF ~(hours.ok /\ minutes.ok /\ seconds.ok) THEN 0
                      ELSE IF hours.val < 0 \/ minutes.val < 0 \/ seconds.val < 0
                      THEN 0
                      ELSE IF minutes.val >= 60 \/ seconds.val >= 60 THEN 0
                      ELSE hours.val * 3600 + minutes.val * 60 + seconds.val

\* utils/time_parser.py parse_bitrix_time: "2025-11-26T09:13:20+05:00", here
\* [wall, off], to the naive datetime of the local zone
parse_bitrix_time(time_str) == (time_str.wall - time_str.off) + LocalUtcOffset

\* (hours, minutes, seconds) of a number of seconds
HMS(secs) == <<secs \div 3600, (secs % 3600) \div 60, secs % 60>>

---------------------------------------------------------------------------
(* The Bitrix24 side *)

Statuses == {"OPENED", "PAUSED", "CLOSED"}

\* TIME_START older than 24 hours: the day is over for the server
Expired(r, t) == r.TIME_START # None /\ t - Val(r.TIME_START) > DayHours * Hour

FreshDay(t) ==
    [STATUS |-> "OPENED", TIME_START |-> Some(t), TIME_LEAKS |-> 0,
     TIME_FINISH |-> None, pause_at |-> None]

Resumed(r, t) ==
    [r EXCEPT !.STATUS = "OPENED", !.TIME_FINISH = None, !.pause_at = None,
              !.TIME_LEAKS = r.TIME_LEAKS + (t - Val(r.pause_at))]

\* The remote workday after a successful POST of `method` at instant t: "open"
\* creates a fresh day when the day is CLOSED, missing or expired and continues a
\* paused one; "pause" toggles OPENED/PAUSED, but leaves a paused day that
\* carries a TIME_FINISH as it is; "close" closes.  `finish` says whether the
\* server stamps TIME_FINISH when it pauses the day.
RemotePost(method, r, t, finish) ==
    CASE method = "timeman.open" ->
            IF r.STATUS = "CLOSED" \/ r.TIME_START = None \/ Expired(r, t)
            THEN FreshDay(t)
            ELSE IF r.STATUS = "PAUSED" THEN Resumed(r, t)
            ELSE r
      [] method = "timeman.pause" ->
            IF r.STATUS = "OPENED"
            THEN [r EXCEPT !.STATUS = "PAUSED", !.pause_at = Some(t),
                           !.TIME_FINISH = IF finish THEN Some(t) ELSE None]
            ELSE IF r.STATUS = "PAUSED" /\ r.TIME_FINISH = None
            THEN Resumed(r, t)
            ELSE r
      [] method = "timeman.close" ->
            IF r.STATUS = "CLOSED" THEN r
            ELSE [r EXCEPT !.STATUS = "CLOSED", !.TIME_FINISH = Some(t),
                           !.pause_at = None]

\* the "result" object of timeman.status as it travels
Wire(r) ==
    [STATUS |-> r.STATUS,
     TIME_START |-> IF r.TIME_START = None THEN None
                    ELSE Some([wall |-> Val(r.TIME_START) + ServerUtcOffset,
                               off |-> ServerUtcOffset]),
     TIME_LEAKS |-> FormatHMS(r.TIME_LEAKS),
     TIME_FINISH |-> IF r.TIME_FINISH = None THEN None
                     ELSE Some([wall |-> Val(r.TIME_FINISH) + ServerUtcOffset,
                                off |-> ServerUtcOffset])]

\* BitrixClient.get_status: the result, or None on any failure
get_status(r, ok) == IF ok THEN Some(Wire(r)) ELSE None

\* a resume that always toggles with timeman.pause, whatever the status carries
resume_api_method_toggle(status) == "timeman.pause"

\* BitrixClient.resume_workday: the API method it posts
resume_api_method(status) ==
    IF status # None /\ Val(status).TIME_FINISH # None THEN "timeman.open"
    ELSE "timeman.pause"

\* entries of the trace: a get_status() with the STATUS it returned, a POST of
\* an API method, a callback of the pomodoro timer with the state and
\* remaining_seconds it was called at, the title written to the menu bar
GET(status) ==
    [kind |-> "GET", what |-> IF status = None THEN "no status" ELSE "status",
     state |-> IF status = None THEN "" ELSE Val(status).STATUS,
     seconds |-> 0, text |-> <<>>]
POST(method) ==
    [kind |-> "POST", what |-> method, state |-> "", seconds |-> 0, text |-> <<>>]
\* the POST before it was unsuccessful
FAILED(method) ==
    [kind |-> "FAILED", what |-> method, state |-> "", seconds |-> 0,
     text |-> <<>>]
CALLBACK(name, state, seconds) ==
    [kind |-> "CALLBACK", what |-> name, state |-> state, seconds |-> seconds,
     text |-> <<>>]
TITLE(shown) ==
    [kind |-> "TITLE", what |-> shown.icon, state |-> "", seconds |-> 0,
     text |-> shown.text]

\* the methods posted in a trace, in order
Posted(tr) == SelectSeq(tr, LAMBDA e : e.kind = "POST")

---------------------------------------------------------------------------
(* WorkdayManager *)

WorkdayInit ==
    [start_time |-> None, is_running |-> FALSE, is_paused |-> FALSE,
     time_leaks_seconds |-> 0, pause_start_time |-> None]

\* a start() that decides by the age of TIME_START alone
should_open_new_day_by_age(status, t) ==
    IF status # None /\ Val(status).TIME_START # None
    THEN datetime_now(t) - parse_bitrix_time(Val(Val(status).TIME_START))
            > DayHours * Hour
    ELSE TRUE

\* start(): whether a new day is opened, from the status fetched first
should_open_new_day(status, t) ==
    IF status # None /\ Val(status).TIME_START # None
    THEN LET time_start == parse_bitrix_time(Val(Val(status).TIME_START))
             seconds_since_start == datetime_now(t) - time_start
         IN  \/ Val(status).STATUS = "CLOSED"
             \/ seconds_since_start > DayHours * Hour
    ELSE TRUE

\* a synchronisation that keeps the local pause seconds
sync_with_existing_day_keeping_leaks(w, status, t) ==
    LET base == [w EXCEPT
                   !.start_time = Some(parse_bitrix_time(Val(status.TIME_START))),
                   !.is_running = TRUE]
    IN  IF status.STATUS = "PAUSED"
        THEN [base EXCEPT !.is_paused = TRUE,
                          !.pause_start_time = Some(datetime_now(t))]
        ELSE [base EXCEPT !.is_paused = FALSE]

\* start(): synchronise with the existing day
sync_with_existing_day(w, status, t) ==
    LET base == [w EXCEPT
                   !.start_time = Some(parse_bitrix_time(Val(status.TIME_START))),
                   !.time_leaks_seconds = parse_time_leaks(status.TIME_LEAKS),
                   !.is_running = TRUE]
    IN  IF status.STATUS = "PAUSED"
        THEN [base EXCEPT !.is_paused = TRUE,
                          !.pause_start_time = Some(datetime_now(t))]
        ELSE [base EXCEPT !.is_paused = FALSE]

\* start(): after open_workday() succeeded; new_status is the status fetched then
open_new_day(w, new_status, t) ==
    LET base == IF new_status # None /\ Val(new_status).TIME_START # None
                THEN [w EXCEPT
                        !.start_time =
                            Some(parse_bitrix_time(Val(Val(new_status).TIME_START))),
                        !.time_leaks_seconds =
                            parse_time_leaks(Val(new_status).TIME_LEAKS)]
                ELSE [w EXCEPT !.start_time = Some(datetime_now(t)),
                               !.time_leaks_seconds = 0]
    IN  [base EXCEPT !.is_running = TRUE, !.is_paused = FALSE]

\* a pause that keeps the cached pause seconds
pause_local_keeping_leaks(w, status, t) ==
    [w EXCEPT !.is_paused = TRUE,
              !.pause_start_time = Some(datetime_now(t))]

\* pause(): after pause_workday() succeeded; status was fetched before it
pause_local(w, status, t) ==
    [w EXCEPT !.is_paused = TRUE,
              !.pause_start_time = Some(datetime_now(t)),
              !.time_leaks_seconds = parse_time_leaks(status.TIME_LEAKS)]

\* a resume that keeps the cached pause seconds
resume_local_keeping_leaks(w, status_after) ==
    [w EXCEPT !.is_paused = FALSE, !.pause_start_time = None]

\* resume(): after the POST succeeded and the status after it is OPENED
resume_local(w, status_after) ==
    [w EXCEPT !.time_leaks_seconds = parse_time_leaks(status_after.TIME_LEAKS),
              !.is_paused = FALSE,
              !.pause_start_time = None]

\* reset()
reset(w) ==
    [w EXCEPT !.start_time = None, !.time_leaks_seconds = 0,
              !.pause_start_time = None]

\* stop(): after close_workday() succeeded
stop_closed(w) == reset([w EXCEPT !.is_running = FALSE, !.is_paused = FALSE])

\* get_work_time()
get_work_time(w, t) ==
    IF ~w.is_running \/ w.start_time = None THEN <<0, 0, 0>>
    ELSE LET total_elapsed == datetime_now(t) - Val(w.start_time)
             work_seconds == total_elapsed - w.time_leaks_seconds
         IN  HMS(IF work_seconds < 0 THEN 0 ELSE work_seconds)

\* a pause time counted from the local pause alone
get_pause_time_elapsed_only(w, t) ==
    IF ~w.is_paused \/ w.pause_start_time = None THEN <<0, 0, 0>>
    ELSE HMS(datetime_now(t) - Val(w.pause_start_time))

\* get_pause_time()
get_pause_time(w, t) ==
    IF ~w.is_paused \/ w.pause_start_time = None THEN <<0, 0, 0>>
    ELSE LET pause_elapsed == datetime_now(t) - Val(w.pause_start_time)
             pause_seconds == w.time_leaks_seconds + pause_elapsed
         IN  HMS(pause_seconds)

---------------------------------------------------------------------------
(* Configuration *)

\* config['pomodoro'].get('auto_pause_bitrix', True)
auto_pause_bitrix(cfg) ==
    IF cfg.auto_pause_bitrix = None THEN TRUE ELSE Val(cfg.auto_pause_bitrix)

PauseModes == {"never", "long_breaks_only", "all_breaks"}

\* SettingsWindow.save_: the pause mode of the selected radio row
pause_mode_of_row(selected_row) ==
    IF selected_row = 0 THEN "never"
    ELSE IF selected_row = 1 THEN "long_breaks_only"
    ELSE "all_breaks"

\* the pomodoro settings a configuration carries when nothing was edited
DefaultConfig ==
    [webhook_url |-> "https://example.bitrix24.ru/rest/1/token/",
     work_duration |-> 25, short_break |-> 5, long_break |-> 15,
     pomodoros_until_long_break |-> 4,
     auto_pause_bitrix |-> Some(TRUE),
     bitrix_pause_mode |-> "all_breaks"]

---------------------------------------------------------------------------
(* PomodoroTimer, with the tracker's callbacks *)

PomodoroInit ==
    [state |-> "stopped", remaining_seconds |-> 0, pomodoro_count |-> 0,
     is_running |-> FALSE]

Breaks == {"short_break", "long_break"}

\* What one handler sees of the network: whether its first get_status, its POST
\* and its second get_status succeed, and whether the server stamps TIME_FINISH
\* on a pause.  After a failed POST nothing more is asked of the server.
Nets ==
    {n \in [ok1 : BOOLEAN, okp : BOOLEAN, ok2 : BOOLEAN, finish : BOOLEAN] :
       n.okp \/ (~n.ok2 /\ ~n.finish)}

\* an auto-pause that trusts the POST and does not look at the status after it
on_pomodoro_break_start_unconfirmed(S, break_state, t, net) ==
    IF auto_pause_bitrix(config) /\ S.workday.is_running /\ ~S.workday.is_paused
    THEN IF net.okp
         THEN LET r1 == RemotePost("timeman.pause", S.remote, t, net.finish)
                  status_after == get_status(r1, net.ok2)
              IN  [S EXCEPT
                     !.remote = r1,
                     !.trace = @ \o <<POST("timeman.pause"), GET(status_after)>>,
                     !.workday =
                         IF status_after # None
                         THEN pause_local(@, Val(status_after), t)
                         ELSE [@ EXCEPT !.is_paused = TRUE,
                                        !.pause_start_time =
                                            Some(datetime_now(t))]]
         ELSE [S EXCEPT !.trace = @ \o <<POST("timeman.pause"),
                                          FAILED("timeman.pause")>>]
    ELSE S

\* bitrix_tracker.py on_pomodoro_break_start; S is the state a handler works on
on_pomodoro_break_start(S, break_state, t, net) ==
    IF auto_pause_bitrix(config) /\ S.workday.is_running /\ ~S.workday.is_paused
    THEN IF net.okp
         THEN LET r1 == RemotePost("timeman.pause", S.remote, t, net.finish)
                  status_after == get_status(r1, net.ok2)
              IN  [S EXCEPT
                     !.remote = r1,
                     !.trace = @ \o <<POST("timeman.pause"), GET(status_after)>>,
                     !.workday =
                         IF status_after # None
                            /\ Val(status_after).STATUS = "PAUSED"
                         THEN pause_local(@, Val(status_after), t)
                         ELSE @]
         ELSE [S EXCEPT !.trace = @ \o <<POST("timeman.pause"),
                                          FAILED("timeman.pause")>>]
    ELSE S

\* bitrix_tracker.py on_pomodoro_break_end
on_pomodoro_break_end(S, t, net) ==
    IF auto_pause_bitrix(config) /\ S.workday.is_running /\ S.workday.is_paused
    THEN LET status == get_status(S.remote, net.ok1)
             api_method == resume_api_method(status)
         IN  IF net.okp
             THEN LET r1 == RemotePost(api_method, S.remote, t, net.finish)
                      new_status == get_status(r1, net.ok2)
                  IN  [S EXCEPT
                         !.remote = r1,
                         !.trace = @ \o <<GET(status), POST(api_method),
                                          GET(new_status)>>,
                         !.workday =
                             IF new_status # None
                                /\ Val(new_status).STATUS = "OPENED"
                             THEN resume_local(@, Val(new_status))
                             ELSE @]
             ELSE [S EXCEPT !.trace = @ \o <<GET(status), POST(api_method),
                                              FAILED(api_method)>>]
    ELSE S

\* PomodoroTimer.start
pomodoro_start(S) ==
    LET p == [S.pomodoro EXCEPT !.state = "work",
                                !.remaining_seconds = config.work_duration * 60,
                                !.is_running = TRUE]
    IN  [S EXCEPT !.pomodoro = p,
                  !.trace = @ \o <<CALLBACK("on_state_change", p.state,
                                            p.remaining_seconds)>>]

\* a stop that keeps the count of completed sessions
pomodoro_stop_keeping_count(S) ==
    LET p == [S.pomodoro EXCEPT !.state = "stopped", !.remaining_seconds = 0,
                                !.is_running = FALSE]
    IN  [S EXCEPT !.pomodoro = p,
                  !.trace = @ \o <<CALLBACK("on_state_change", p.state,
                                            p.remaining_seconds)>>]

\* PomodoroTimer.stop
pomodoro_stop(S) ==
    LET p == [state |-> "stopped", remaining_seconds |-> 0,
              is_running |-> FALSE, pomodoro_count |-> 0]
    IN  [S EXCEPT !.pomodoro = p,
                  !.trace = @ \o <<CALLBACK("on_state_change", p.state,
                                            p.remaining_seconds)>>]

\* a long break after every session but the Nth
break_kind_off_by_one(pomodoro_count, pomodoros_until_long) ==
    IF (pomodoro_count - 1) % pomodoros_until_long = 0 THEN "long_break"
    ELSE "short_break"

\* PomodoroTimer._start_break: the kind of break
break_kind(pomodoro_count, pomodoros_until_long) ==
    IF pomodoro_count % pomodoros_until_long = 0 THEN "long_break"
    ELSE "short_break"

\* a start of break that calls on_break_start before it sets the break state
start_break_calling_back_early(S, t, net) ==
    LET kind == break_kind(S.pomodoro.pomodoro_count,
                           config.pomodoros_until_long_break)
        p == [S.pomodoro EXCEPT
                !.state = kind,
                !.remaining_seconds =
                    IF kind = "long_break" THEN config.long_break * 60
                    ELSE config.short_break * 60]
        S1 == on_pomodoro_break_start(
                  [S EXCEPT !.trace = @ \o
                      <<CALLBACK("on_break_start", S.pomodoro.state,
                                 S.pomodoro.remaining_seconds)>>],
                  S.pomodoro.state, t, net)
    IN  [S1 EXCEPT !.pomodoro = p]

\* PomodoroTimer._start_break
start_break(S, t, net) ==
    LET kind == break_kind(S.pomodoro.pomodoro_count,
                           config.pomodoros_until_long_break)
        p == [S.pomodoro EXCEPT
                !.state = kind,
                !.remaining_seconds =
                    IF kind = "long_break" THEN config.long_break * 60
                    ELSE config.short_break * 60]
    IN  on_pomodoro_break_start(
            [S EXCEPT !.pomodoro = p,
                      !.trace = @ \o <<CALLBACK("on_break_start", p.state,
                                                p.remaining_seconds)>>],
            p.state, t, net)

\* an end of break that stays in the break and counts it down again
end_break_staying(S, t, net) ==
    LET S1 == on_pomodoro_break_end(
                  [S EXCEPT !.trace = @ \o
                      <<CALLBACK("on_break_end", S.pomodoro.state,
                                 S.pomodoro.remaining_seconds)>>],
                  t, net)
    IN  [S1 EXCEPT !.pomodoro.remaining_seconds = config.work_duration * 60]

\* PomodoroTimer._end_break
end_break(S, t, net) ==
    LET S1 == on_pomodoro_break_end(
                  [S EXCEPT !.trace = @ \o
                      <<CALLBACK("on_break_end", S.pomodoro.state,
                                 S.pomodoro.remaining_seconds)>>],
                  t, net)
    IN  [S1 EXCEPT !.pomodoro.state = "work",
                   !.pomodoro.remaining_seconds = config.work_duration * 60]

\* a skip that counts the skipped work session as completed
pomodoro_skip_counting(S, t, net) ==
    IF S.pomodoro.state = "work"
    THEN start_break([S EXCEPT !.pomodoro.pomodoro_count = @ + 1], t, net)
    ELSE IF S.pomodoro.state \in Breaks THEN end_break(S, t, net)
    ELSE S

\* PomodoroTimer.skip
pomodoro_skip(S, t, net) ==
    IF S.pomodoro.state = "work" THEN start_break(S, t, net)
    ELSE IF S.pomodoro.state \in Breaks THEN end_break(S, t, net)
    ELSE S

\* a tick that does not count the work session it completes
pomodoro_tick_uncounted(S, t, net) ==
    IF ~S.pomodoro.is_running THEN S
    ELSE LET S1 == [S EXCEPT !.pomodoro.remaining_seconds = @ - 1]
             S2 == IF S1.pomodoro.remaining_seconds <= 0
                   THEN IF S1.pomodoro.state = "work"
                        THEN start_break(S1, t, net)
                        ELSE end_break(S1, t, net)
                   ELSE S1
         IN  [S2 EXCEPT !.trace = @ \o
                <<CALLBACK("on_state_change", S2.pomodoro.state,
                           S2.pomodoro.remaining_seconds)>>]

\* a tick that ends the session one second late, below zero
pomodoro_tick_through_zero(S, t, net) ==
    IF ~S.pomodoro.is_running THEN S
    ELSE LET S1 == [S EXCEPT !.pomodoro.remaining_seconds = @ - 1]
             S2 == IF S1.pomodoro.remaining_seconds < 0
                   THEN IF S1.pomodoro.state = "work"
                        THEN start_break(
                                 [S1 EXCEPT !.pomodoro.pomodoro_count = @ + 1],
                                 t, net)
                        ELSE IF S1.pomodoro.state \in Breaks
                        THEN end_break(S1, t, net)
                        ELSE S1
                   ELSE S1
         IN  [S2 EXCEPT !.trace = @ \o
                <<CALLBACK("on_state_change", S2.pomodoro.state,
                           S2.pomodoro.remaining_seconds)>>]

\* PomodoroTimer.tick
pomodoro_tick(S, t, net) ==
    IF ~S.pomodoro.is_running THEN S
    ELSE LET S1 == [S EXCEPT !.pomodoro.remaining_seconds = @ - 1]
             S2 == IF S1.pomodoro.remaining_seconds <= 0
                   THEN IF S1.pomodoro.state = "work"
                        THEN start_break(
                                 [S1 EXCEPT !.pomodoro.pomodoro_count = @ + 1],
                                 t, net)
                        ELSE IF S1.pomodoro.state \in Breaks
                        THEN end_break(S1, t, net)
                        ELSE S1
                   ELSE S1
         IN  [S2 EXCEPT !.trace = @ \o
                <<CALLBACK("on_state_change", S2.pomodoro.state,
                           S2.pomodoro.remaining_seconds)>>]

\* PomodoroTimer.get_display_time: (minutes, seconds)
get_display_time(p) == <<p.remaining_seconds \div 60, p.remaining_seconds % 60>>

\* bitrix_tracker.py update_timer: the title it writes to the menu bar, a
\* function of the fields and the clock at the tick
display(w, p, t) ==
    IF p.is_running THEN [icon |-> p.state, text |-> get_display_time(p)]
    ELSE IF w.is_paused /\ w.pause_start_time # None
    THEN [icon |-> "pause", text |-> get_pause_time(w, t)]
    ELSE IF w.is_running /\ w.start_time # None
    THEN [icon |-> "timer", text |-> get_work_time(w, t)]
    ELSE [icon |-> "timer", text |-> <<0, 0, 0>>]

---------------------------------------------------------------------------
(* WorkdayManager's handlers.  S is the state a handler works on: the fields *)
(* it may change, the trace of what it did and its return value.             *)

\* WorkdayManager.start
workday_start(S, t, net) ==
    IF config.webhook_url = "" THEN [S EXCEPT !.ret = "False"]
    ELSE LET status == get_status(S.remote, net.ok1)
         IN  IF ~should_open_new_day(status, t)
             THEN [S EXCEPT
                     !.workday = sync_with_existing_day(@, Val(status), t),
                     !.trace = <<GET(status)>>, !.ret = "True"]
             ELSE IF net.okp
             THEN LET r1 == RemotePost("timeman.open", S.remote, t, net.finish)
                      new_status == get_status(r1, net.ok2)
                  IN  [S EXCEPT
                         !.workday = open_new_day(@, new_status, t),
                         !.remote = r1,
                         !.trace = <<GET(status), POST("timeman.open"),
                                     GET(new_status)>>,
                         !.ret = "True"]
             ELSE [S EXCEPT !.trace = <<GET(status), POST("timeman.open"),
                                        FAILED("timeman.open")>>,
                            !.ret = "False"]

\* WorkdayManager.pause
workday_pause(S, t, net) ==
    LET status == get_status(S.remote, net.ok1)
    IN  IF status = None
        THEN [S EXCEPT !.trace = <<GET(status)>>, !.ret = "False"]
        ELSE IF net.okp
        THEN [S EXCEPT
                !.workday = pause_local(@, Val(status), t),
                !.remote = RemotePost("timeman.pause", @, t, net.finish),
                !.trace = <<GET(status), POST("timeman.pause")>>,
                !.ret = "True"]
        ELSE [S EXCEPT !.trace = <<GET(status), POST("timeman.pause"),
                                   FAILED("timeman.pause")>>,
                       !.ret = "False"]

\* WorkdayManager.resume
workday_resume(S, t, net) ==
    LET status_before == get_status(S.remote, net.ok1)
        api_method == resume_api_method(status_before)
    IN  IF net.okp
        THEN LET r1 == RemotePost(api_method, S.remote, t, net.finish)
                 status_after == get_status(r1, net.ok2)
                 opened == status_after # None
                           /\ Val(status_after).STATUS = "OPENED"
             IN  [S EXCEPT
                    !.workday = IF opened THEN resume_local(@, Val(status_after))
                                ELSE @,
                    !.remote = r1,
                    !.trace = <<GET(status_before), POST(api_method),
                                GET(status_after)>>,
                    !.ret = IF opened THEN "True" ELSE "False"]
        ELSE [S EXCEPT !.trace = <<GET(status_before), POST(api_method),
                                   FAILED(api_method)>>,
                       !.ret = "False"]

\* a stop that posts the close whatever STATUS the fetched status has
workday_stop_unchecked(S, t, net) ==
    LET status == get_status(S.remote, net.ok1)
    IN  IF status = None
        THEN [S EXCEPT !.trace = <<GET(status)>>, !.ret = "False"]
        ELSE IF net.okp
        THEN [S EXCEPT
                !.workday = stop_closed(@),
                !.remote = RemotePost("timeman.close", @, t, net.finish),
                !.trace = <<GET(status), POST("timeman.close")>>,
                !.ret = "True"]
        ELSE [S EXCEPT !.workday = reset(@),
                       !.trace = <<GET(status), POST("timeman.close"),
                                   FAILED("timeman.close")>>,
                       !.ret = "True"]

\* WorkdayManager.stop
workday_stop(S, t, net) ==
    LET status == get_status(S.remote, net.ok1)
    IN  IF status = None
        THEN [S EXCEPT !.trace = <<GET(status)>>, !.ret = "False"]
        ELSE IF Val(status).STATUS = "CLOSED"
        THEN [S EXCEPT !.workday = reset(@), !.trace = <<GET(status)>>,
                       !.ret = "True"]
        ELSE IF net.okp
        THEN [S EXCEPT
                !.workday = stop_closed(@),
                !.remote = RemotePost("timeman.close", @, t, net.finish),
                !.trace = <<GET(status), POST("timeman.close")>>,
                !.ret = "True"]
        ELSE [S EXCEPT !.workday = reset(@),
                       !.trace = <<GET(status), POST("timeman.close"),
                                   FAILED("timeman.close")>>,
                       !.ret = "True"]

---------------------------------------------------------------------------
(* The state machine *)

Cur ==
    [workday |-> workday, remote |-> remote, pomodoro |-> pomodoro,
     trace |-> <<>>, ret |-> "None"]

\* the ticks taken in the session the timer is in, after handler `name` left S
SessionTicksAfter(S, name) ==
    IF S.pomodoro.state # pomodoro.state THEN 0
    ELSE IF name \in {"pomodoro_start", "pomodoro_stop", "pomodoro_skip"} THEN 0
    ELSE IF name = "update_timer" /\ pomodoro.is_running THEN session_ticks + 1
    ELSE session_ticks

Apply(S, name) ==
    /\ workday' = S.workday
    /\ remote' = S.remote
    /\ pomodoro' = S.pomodoro
    /\ trace' = S.trace
    /\ ret' = S.ret
    /\ op' = name
    /\ session_ticks' = SessionTicksAfter(S, name)
    /\ UNCHANGED <<parse_input, parse_output, answers, reply>>

NoDay ==
    [STATUS |-> "CLOSED", TIME_START |-> None, TIME_LEAKS |-> 0,
     TIME_FINISH |-> None, pause_at |-> None]

InitState ==
    /\ now = 0
    /\ remote = NoDay
    /\ workday = WorkdayInit
    /\ pomodoro = PomodoroInit
    /\ op = "init"
    /\ ret = "None"
    /\ trace = <<>>
    /\ resync = None
    /\ nbreaks = 0
    /\ ticks_only = FALSE
    /\ session_ticks = 0
    /\ parse_input = <<>>
    /\ parse_output = None
    /\ answers = <<>>
    /\ reply = None

\* MenuManager.update_current_menu: the workday items the menu offers
MenuOffers(item) ==
    IF workday.is_running
    THEN IF workday.is_paused THEN item \in {"resume", "stop"}
         ELSE item \in {"pause", "stop"}
    ELSE item = "start"

StartWorkday ==
    /\ MenuOffers("start")
    /\ \E net \in Nets :
         LET S == workday_start(Cur, now, net)
         IN  /\ Apply(S, "start")
             /\ resync' = IF S.ret = "True" /\ Len(S.trace) = 1
                             /\ S.trace[1].state = "PAUSED"
                          THEN Some([T |-> remote.TIME_LEAKS, at |-> now])
                          ELSE None
    /\ UNCHANGED <<now, config, nbreaks, ticks_only>>

PauseWorkday ==
    /\ MenuOffers("pause")
    /\ \E net \in Nets : Apply(workday_pause(Cur, now, net), "pause")
    /\ resync' = None
    /\ UNCHANGED <<now, config, nbreaks, ticks_only>>

ResumeWorkday ==
    /\ MenuOffers("resume")
    /\ \E net \in Nets : Apply(workday_resume(Cur, now, net), "resume")
    /\ resync' = None
    /\ UNCHANGED <<now, config, nbreaks, ticks_only>>

StopWorkday ==
    /\ MenuOffers("stop")
    /\ \E net \in Nets : Apply(workday_stop(Cur, now, net), "stop")
    /\ resync' = None
    /\ UNCHANGED <<now, config, nbreaks, ticks_only>>

\* whether a handler entered a break
EnteredBreak(S) == \E i \in 1..Len(S.trace) : S.trace[i].what = "on_break_start"

\* a tick that adds a second to the pause seconds while the workday is paused
TickedAccumulating ==
    IF pomodoro.is_running THEN {pomodoro_tick(Cur, now, net) : net \in Nets}
    ELSE {[Cur EXCEPT !.workday.time_leaks_seconds =
                          IF workday.is_paused THEN @ + 1 ELSE @]}

\* the handler's tick of the pomodoro timer, for every way the network may answer
Ticked ==
    IF pomodoro.is_running THEN {pomodoro_tick(Cur, now, net) : net \in Nets}
    ELSE {Cur}

\* the 1 Hz timer: bitrix_tracker.py update_timer
UpdateTimer ==
    /\ ~(/\ pomodoro.is_running /\ pomodoro.state = "work"
         /\ pomodoro.remaining_seconds <= 1
         /\ pomodoro.pomodoro_count >= MaxCount)
    /\ \E S \in Ticked :
         /\ Apply([S EXCEPT !.trace = @ \o
                      <<TITLE(display(S.workday, S.pomodoro, now))>>],
                  "update_timer")
         /\ resync' = IF S.workday = workday THEN resync ELSE None
         /\ nbreaks' = IF ticks_only /\ EnteredBreak(S) THEN nbreaks + 1
                       ELSE nbreaks
    /\ UNCHANGED <<now, config, ticks_only>>

\* toggle_pomodoro switching the timer on: PomodoroTimer.start
PomodoroStart ==
    /\ Apply(pomodoro_start(Cur), "pomodoro_start")
    /\ nbreaks' = 0
    /\ ticks_only' = (pomodoro.state = "stopped")
    /\ UNCHANGED <<now, config, resync>>

\* toggle_pomodoro switching the timer off: PomodoroTimer.stop
PomodoroStop ==
    /\ Apply(pomodoro_stop(Cur), "pomodoro_stop")
    /\ nbreaks' = 0
    /\ ticks_only' = FALSE
    /\ UNCHANGED <<now, config, resync>>

\* skip_pomodoro: PomodoroTimer.skip
PomodoroSkip ==
    /\ \E net \in Nets :
         LET S == pomodoro_skip(Cur, now, net)
         IN  /\ Apply(S, "pomodoro_skip")
             /\ resync' = IF S.workday = workday THEN resync ELSE None
    /\ nbreaks' = 0
    /\ ticks_only' = FALSE
    /\ UNCHANGED <<now, config>>

\* time passes: a second, or a day
AdvanceTime ==
    /\ \/ /\ now % (DayHours * Hour) < MaxSec
          /\ now' = now + 1
       \/ /\ now \div (DayHours * Hour) < MaxDays
          /\ now' = now + DayHours * Hour
    /\ op' = "time"
    /\ ret' = "None"
    /\ trace' = <<>>
    /\ UNCHANGED <<remote, workday, pomodoro, config, resync, nbreaks,
                   ticks_only, session_ticks, parse_input, parse_output,
                   answers, reply>>

\* the day is opened, paused, resumed or closed from another client
RemoteChangedElsewhere ==
    /\ \E method \in {"timeman.open", "timeman.pause", "timeman.close"},
          finish \in BOOLEAN :
         remote' = RemotePost(method, remote, now, finish)
    /\ remote' # remote
    /\ op' = "elsewhere"
    /\ ret' = "None"
    /\ trace' = <<>>
    /\ UNCHANGED <<now, workday, pomodoro, config, resync, nbreaks, ticks_only,
                   session_ticks, parse_input, parse_output, answers, reply>>

\* the workday against the server and the clock; the pomodoro timer is off
Init ==
    /\ InitState
    /\ config \in {[DefaultConfig EXCEPT !.webhook_url = u] :
                     u \in {"", DefaultConfig.webhook_url}}

Next ==
    \/ StartWorkday
    \/ PauseWorkday
    \/ ResumeWorkday
    \/ StopWorkday
    \/ UpdateTimer
    \/ AdvanceTime
    \/ RemoteChangedElsewhere

Spec == Init /\ [][Next]_vars

\* the pomodoro timer alone: no webhook is configured, the workday never starts
InitPomodoro ==
    /\ InitState
    /\ config \in {[DefaultConfig EXCEPT
                      !.webhook_url = "",
                      !.work_duration = w, !.short_break = s, !.long_break = l,
                      !.pomodoros_until_long_break = n] :
                     w \in 0..MaxMinutes, s \in 0..MaxMinutes,
                     l \in 0..MaxMinutes, n \in 1..MaxUntilLong}

NextPomodoro ==
    \/ PomodoroStart
    \/ PomodoroStop
    \/ PomodoroSkip
    \/ UpdateTimer

SpecPomodoro == InitPomodoro /\ [][NextPomodoro]_vars

\* the tracker with both timers, at one instant: the pomodoro timer's break
\* callbacks pause and resume the workday under every auto-pause setting.  The
\* sessions are configured with zero minutes, so that every tick ends one; the
\* countdown itself is SpecPomodoro's.
InitApp ==
    /\ InitState
    /\ config \in {[DefaultConfig EXCEPT
                      !.work_duration = 0, !.short_break = 0, !.long_break = 0,
                      !.pomodoros_until_long_break = MaxUntilLong,
                      !.auto_pause_bitrix = a,
                      !.bitrix_pause_mode = pause_mode_of_row(row)] :
                     a \in {None, Some(TRUE), Some(FALSE)}, row \in 0..2}

NextApp ==
    \/ StartWorkday
    \/ PauseWorkday
    \/ ResumeWorkday
    \/ StopWorkday
    \/ RemoteChangedElsewhere
    \/ PomodoroStart
    \/ PomodoroStop
    \/ PomodoroSkip
    \/ UpdateTimer

SpecApp == InitApp /\ [][NextApp]_vars

\* The parts a TIME_LEAKS value is put together from: the text, whether int()
\* accepts it, and the integer it stands for
PartSamples ==
    {[str |-> <<"0", "0">>, int |-> TRUE, val |-> 0],
     [str |-> <<"0", "1">>, int |-> TRUE, val |-> 1],
     [str |-> <<"2", "6">>, int |-> TRUE, val |-> 26],
     [str |-> <<"4", "1">>, int |-> TRUE, val |-> 41],
     [str |-> <<"5", "9">>, int |-> TRUE, val |-> 59],
     [str |-> <<"6", "0">>, int |-> TRUE, val |-> 60],
     [str |-> <<" ", "7">>, int |-> TRUE, val |-> 7],
     [str |-> <<"-", "1">>, int |-> TRUE, val |-> 0 - 1],
     [str |-> <<"x">>, int |-> FALSE, val |-> 0],
     [str |-> <<>>, int |-> FALSE, val |-> 0]}

\* ":".join of the parts' texts; no part at all is the empty str, or None
RECURSIVE JoinParts(_)
JoinParts(parts) ==
    IF parts = <<>> THEN <<>>
    ELSE IF Len(parts) = 1 THEN parts[1].str
    ELSE parts[1].str \o <<":">> \o JoinParts(Tail(parts))

\* a caller hands a TIME_LEAKS value to parse_time_leaks
ParseTimeLeaks ==
    /\ parse_output = None
    /\ parse_output' = Some(parse_time_leaks(JoinParts(parse_input)))
    /\ op' = "parse_time_leaks"
    /\ UNCHANGED <<now, remote, workday, pomodoro, config, ret, trace, resync,
                   nbreaks, ticks_only, session_ticks, parse_input, answers,
                   reply>>

\* parse_time_leaks on TIME_LEAKS values of up to MaxParts parts
InitParse ==
    /\ now = 0
    /\ remote = NoDay
    /\ workday = WorkdayInit
    /\ pomodoro = PomodoroInit
    /\ config = DefaultConfig
    /\ op = "init"
    /\ ret = "None"
    /\ trace = <<>>
    /\ resync = None
    /\ nbreaks = 0
    /\ ticks_only = FALSE
    /\ session_ticks = 0
    /\ parse_input \in UNION {[1..n -> PartSamples] : n \in 0..MaxParts}
    /\ parse_output = None
    /\ answers = <<>>
    /\ reply = None

NextParse == ParseTimeLeaks

SpecParse == InitParse /\ [][NextParse]_vars

---------------------------------------------------------------------------
(* The refactored tracker's start_workday, next to WorkdayManager.start *)

\* the values timeman.status gives for STATUS
WireStatuses == Statuses \cup {"EXPIRED"}

\* bitrix_tracker_refactored.py TimeUtils.parse_time_leaks
TimeUtils_parse_time_leaks(time_leaks_str) ==
    IF time_leaks_str = <<>> THEN 0
    ELSE LET parts == Split(time_leaks_str, ":")
         IN  IF Len(parts) # 3 THEN 0
             ELSE LET hours == int(parts[1])
                      minutes == int(parts[2])
                      seconds == int(parts[3])
                  IN  IF ~(hours.ok /\ minutes.ok /\ seconds.ok) THEN 0
                      ELSE hours.val * 3600 + minutes.val * 60 + seconds.val

\* TimeUtils.is_time_expired
is_time_expired(time_start, t, hours) ==
    datetime_now(t) - time_start > hours * Hour

\* BitrixWorkdayTracker._should_sync_with_existing_day
should_sync_with_existing_day(status, t) ==
    IF status.TIME_START = None THEN FALSE
    ELSE IF status.STATUS = "CLOSED" THEN FALSE
    ELSE IF is_time_expired(parse_bitrix_time(Val(status.TIME_START)), t,
                            DayHours)
    THEN FALSE
    ELSE status.STATUS \in {"OPENED", "PAUSED"}

\* BitrixWorkdayTracker._sync_with_existing_day
tracker_sync_with_existing_day(w, status, t) ==
    LET base == [w EXCEPT
                   !.start_time = Some(parse_bitrix_time(Val(status.TIME_START))),
                   !.time_leaks_seconds =
                       TimeUtils_parse_time_leaks(status.TIME_LEAKS),
                   !.is_running = TRUE]
    IN  IF status.STATUS = "PAUSED"
        THEN [base EXCEPT !.is_paused = TRUE,
                          !.pause_start_time = Some(datetime_now(t))]
        ELSE [base EXCEPT !.is_paused = FALSE]

\* BitrixWorkdayTracker._open_new_workday
tracker_open_new_workday(S, t, net) ==
    IF ~net.okp
    THEN [S EXCEPT !.trace = @ \o <<POST("timeman.open"),
                                     FAILED("timeman.open")>>]
    ELSE LET r1 == RemotePost("timeman.open", S.remote, t, net.finish)
             status == get_status(r1, net.ok2)
             w == IF status # None /\ Val(status).TIME_START # None
                  THEN [S.workday EXCEPT
                          !.start_time =
                              Some(parse_bitrix_time(Val(Val(status).TIME_START))),
                          !.time_leaks_seconds =
                              TimeUtils_parse_time_leaks(Val(status).TIME_LEAKS)]
                  ELSE [S.workday EXCEPT !.start_time = Some(datetime_now(t)),
                                         !.time_leaks_seconds = 0]
         IN  [S EXCEPT
                !.workday = [w EXCEPT !.is_running = TRUE, !.is_paused = FALSE],
                !.remote = r1,
                !.trace = @ \o <<POST("timeman.open"), GET(status)>>]

\* bitrix_tracker_refactored.py BitrixWorkdayTracker.start_workday
tracker_start_workday(S, t, net) ==
    IF config.webhook_url = "" THEN S
    ELSE LET status == get_status(S.remote, net.ok1)
             S1 == [S EXCEPT !.trace = <<GET(status)>>]
         IN  IF status = None THEN S1
             ELSE IF should_sync_with_existing_day(Val(status), t)
             THEN [S1 EXCEPT !.workday =
                                 tracker_sync_with_existing_day(@, Val(status), t)]
             ELSE tracker_open_new_workday(S1, t, net)

\* the "start" item handled by the refactored tracker
TrackerStartWorkday ==
    /\ MenuOffers("start")
    /\ \E net \in Nets : Apply(tracker_start_workday(Cur, now, net),
                               "tracker_start")
    /\ resync' = None
    /\ UNCHANGED <<now, config, nbreaks, ticks_only>>

\* the days a start may find on the server
StartDays ==
    {[STATUS |-> s, TIME_START |-> ts, TIME_LEAKS |-> l, TIME_FINISH |-> None,
      pause_at |-> IF s = "PAUSED" THEN Some(0) ELSE None] :
       s \in WireStatuses, ts \in {None, Some(0)}, l \in 0..MaxSec}

\* one start, by either implementation, on each day the server may hold
InitStart ==
    /\ now = 0
    /\ workday = WorkdayInit
    /\ pomodoro = PomodoroInit
    /\ config = DefaultConfig
    /\ op = "init"
    /\ ret = "None"
    /\ trace = <<>>
    /\ resync = None
    /\ nbreaks = 0
    /\ ticks_only = FALSE
    /\ session_ticks = 0
    /\ parse_input = <<>>
    /\ parse_output = None
    /\ answers = <<>>
    /\ reply = None
    /\ remote \in {d \in StartDays : d.TIME_START = None => d.STATUS = "CLOSED"}

NextStart ==
    \/ StartWorkday
    \/ TrackerStartWorkday
    \/ AdvanceTime

SpecStart == InitStart /\ [][NextStart]_vars

---------------------------------------------------------------------------
(* BitrixClient: one call against the answers the server gives to its attempts *)

\* Retry(total=3)
RetryTotal == 3

\* Retry(status_forcelist=[429, 500, 502, 503, 504])
status_forcelist == {429, 500, 502, 503, 504}

\* What one attempt of a request may meet: no answer in time, no connection, or
\* a response with a status code and a body.  The body is a JSON object with a
\* "result", a JSON object without one, JSON that is no object, or no JSON.
Bodies == {"result", "no result", "no object", "no json"}

Answers ==
    {[err |-> e, status_code |-> 0, body |-> "no json"] :
       e \in {"timeout", "connection"}}
    \cup {[err |-> "", status_code |-> 200, body |-> b] : b \in Bodies}
    \cup {[err |-> "", status_code |-> c, body |-> "no json"] :
            c \in {404, 429, 503}}

\* what an attempt that the adapter retries failed with
FailureOf(answer) ==
    IF answer.err = "timeout" THEN "Timeout"
    ELSE IF answer.err = "connection" THEN "ConnectionError"
    ELSE "RetryError"

\* session.get / session.post through the HTTPAdapter with the retry strategy:
\* attempt i with `total` retries left.  It gives the response, or the
\* exception raised when the retries are used up.
RECURSIVE session_request(_, _, _)
session_request(served, i, total) ==
    LET answer == served[i]
    IN  IF answer.err # "" \/ answer.status_code \in status_forcelist
        THEN IF total = 0
             THEN [raised |-> FailureOf(answer), response |-> answer,
                   attempts |-> i]
             ELSE session_request(served, i + 1, total - 1)
        ELSE [raised |-> "", response |-> answer, attempts |-> i]

\* a raise_for_status that lets every status code pass
raise_for_status_never(response) == ""

\* response.raise_for_status(): HTTPError for 4xx and 5xx
raise_for_status(response) ==
    IF response.status_code >= 400 THEN "HTTPError" ELSE ""

\* response.json() and data.get('result', {}): the value, or the exception
json_result(response) ==
    IF response.body = "no json" THEN [raised |-> "ValueError", value |-> ""]
    ELSE IF response.body = "no object"
    THEN [raised |-> "AttributeError", value |-> ""]
    ELSE IF response.body = "no result" THEN [raised |-> "", value |-> "{}"]
    ELSE [raised |-> "", value |-> "result"]

\* the except clauses of get_status and of the four POST operations
ExceptGetStatus ==
    {"Timeout", "ConnectionError", "HTTPError", "ValueError", "Exception"}
ExceptPost == {"Timeout", "HTTPError", "Exception"}

\* try/except: the value of the body, the handler's value when a clause takes
\* the exception, the exception itself when none does
TryExcept(clauses, body, on_error) ==
    IF body.raised = "" THEN body
    ELSE IF body.raised \in clauses \/ "Exception" \in clauses
    THEN [body EXCEPT !.raised = "", !.value = on_error]
    ELSE body

\* BitrixClient.get_status
client_get_status(served) ==
    LET got == session_request(served, 1, RetryTotal)
        checked == IF got.raised # "" THEN got.raised
                   ELSE raise_for_status(got.response)
        parsed == IF checked # "" THEN [raised |-> checked, value |-> ""]
                  ELSE json_result(got.response)
    IN  TryExcept(ExceptGetStatus,
                  [method |-> "timeman.status", attempts |-> got.attempts,
                   raised |-> parsed.raised, value |-> parsed.value],
                  "None")

\* the POST of open_workday, close_workday, pause_workday and resume_workday
client_post(api_method, served) ==
    LET got == session_request(served, 1, RetryTotal)
        checked == IF got.raised # "" THEN got.raised
                   ELSE raise_for_status(got.response)
    IN  TryExcept(ExceptPost,
                  [method |-> api_method, attempts |-> got.attempts,
                   raised |-> checked, value |-> "True"],
                  "False")

\* BitrixClient.open_workday
open_workday(served) == client_post("timeman.open", served)

\* BitrixClient.close_workday
close_workday(served) == client_post("timeman.close", served)

\* BitrixClient.pause_workday
pause_workday(served) == client_post("timeman.pause", served)

\* BitrixClient.resume_workday
resume_workday(status, served) == client_post(resume_api_method(status), served)

\* a call of the client: its reply is kept
Called(result, name) ==
    /\ reply' = Some(result)
    /\ op' = name
    /\ UNCHANGED <<now, remote, workday, pomodoro, config, ret, trace, resync,
                   nbreaks, ticks_only, session_ticks, parse_input,
                   parse_output, answers>>

ClientGetStatus ==
    /\ reply = None
    /\ Called(client_get_status(answers), "get_status")

ClientOpenWorkday ==
    /\ reply = None
    /\ Called(open_workday(answers), "open_workday")

ClientCloseWorkday ==
    /\ reply = None
    /\ Called(close_workday(answers), "close_workday")

ClientPauseWorkday ==
    /\ reply = None
    /\ Called(pause_workday(answers), "pause_workday")

ClientResumeWorkday ==
    /\ reply = None
    /\ \E finished \in BOOLEAN :
         LET r == [FreshDay(0) EXCEPT
                     !.STATUS = "PAUSED", !.pause_at = Some(0),
                     !.TIME_FINISH = IF finished THEN Some(0) ELSE None]
         IN  Called(resume_workday(Some(Wire(r)), answers), "resume_workday")

\* one call of the client, against every way the server may answer its attempts
InitClient ==
    /\ now = 0
    /\ remote = NoDay
    /\ workday = WorkdayInit
    /\ pomodoro = PomodoroInit
    /\ config = DefaultConfig
    /\ op = "init"
    /\ ret = "None"
    /\ trace = <<>>
    /\ resync = None
    /\ nbreaks = 0
    /\ ticks_only = FALSE
    /\ session_ticks = 0
    /\ parse_input = <<>>
    /\ parse_output = None
    /\ answers \in [1..(RetryTotal + 1) -> Answers]
    /\ reply = None

NextClient ==
    \/ ClientGetStatus
    \/ ClientOpenWorkday
    \/ ClientCloseWorkday
    \/ ClientPauseWorkday
    \/ ClientResumeWorkday

SpecClient == InitClient /\ [][NextClient]_vars

---------------------------------------------------------------------------
(* The pomodoro timer under its 1 Hz timer, switched on once and never off *)

\* toggle_pomodoro switching a stopped timer on
PomodoroSwitchOn ==
    /\ pomodoro.state = "stopped"
    /\ PomodoroStart

NextPomodoroLive ==
    \/ PomodoroSwitchOn
    \/ UpdateTimer

\* rumps.Timer(update_timer, 1) keeps firing: the tick is taken again and again
SpecPomodoroLive ==
    InitPomodoro /\ [][NextPomodoroLive]_vars /\ WF_vars(UpdateTimer)

---------------------------------------------------------------------------
(* Properties of WorkdayManager.start and of resuming *)

\* the handler's first get_status() returned a status
FetchedFirst(tr) == tr # <<>> /\ tr[1].what = "status"

\* C1: when start() fetches a status whose STATUS is CLOSED, or whose
\* TIME_START lies more than 24 hours before now, it posts timeman.open exactly
\* once and nothing else; when the open succeeds the workday is running, not
\* paused, has no accumulated pause seconds and is anchored at this instant.
C1_StartOpensNewDay ==
    [][(/\ op' = "start"
        /\ FetchedFirst(trace')
        /\ \/ remote.STATUS = "CLOSED"
           \/ /\ remote.TIME_START # None
              /\ now - Val(remote.TIME_START) > DayHours * Hour)
       => /\ Posted(trace') = <<POST("timeman.open")>>
          /\ ret' = "True" =>
                /\ workday'.time_leaks_seconds = 0
                /\ ~workday'.is_paused
                /\ workday'.is_running
                /\ workday'.start_time = Some(datetime_now(now))]_vars

\* start() found a day still OPENED on the server that began more than 24 hours
\* ago, opened a new one and runs
C1_Witness ==
    /\ op = "start" /\ ret = "True"
    /\ Len(trace) = 3
    /\ trace[1].what = "status" /\ trace[1].state = "OPENED"
    /\ trace[2] = POST("timeman.open")
    /\ workday.is_running /\ ~workday.is_paused
    /\ workday.time_leaks_seconds = 0
    /\ workday.start_time = Some(datetime_now(now))

\* C2: when start() fetches a status that is not CLOSED and whose TIME_START is
\* at most 24 hours old, it posts nothing and adopts the remote day: start_time
\* is the remote TIME_START, time_leaks_seconds the remote TIME_LEAKS,
\* is_running holds, and is_paused holds exactly when the remote STATUS is
\* PAUSED, pause_start_time being this instant then.
C2_StartSyncsExistingDay ==
    [][(/\ op' = "start"
        /\ FetchedFirst(trace')
        /\ remote.STATUS # "CLOSED"
        /\ remote.TIME_START # None
        /\ now - Val(remote.TIME_START) <= DayHours * Hour)
       => /\ Posted(trace') = <<>>
          /\ remote' = remote
          /\ workday'.start_time = Some(datetime_now(Val(remote.TIME_START)))
          /\ workday'.time_leaks_seconds = remote.TIME_LEAKS
          /\ workday'.is_running
          /\ workday'.is_paused <=> remote.STATUS = "PAUSED"
          /\ remote.STATUS = "PAUSED" =>
                workday'.pause_start_time = Some(datetime_now(now))]_vars

\* start() adopted a PAUSED day that began exactly 24 hours ago and carries
\* accumulated pause seconds
C2_Witness ==
    /\ op = "start" /\ ret = "True"
    /\ trace = <<GET(Some(Wire(remote)))>>
    /\ remote.STATUS = "PAUSED"
    /\ now - Val(remote.TIME_START) = DayHours * Hour
    /\ remote.TIME_LEAKS > 0
    /\ workday.is_paused
    /\ workday.time_leaks_seconds = remote.TIME_LEAKS

\* the position of the first get_status() in a trace
FirstGet(tr) ==
    CHOOSE i \in 1..Len(tr) :
        tr[i].kind = "GET" /\ \A j \in 1..(i - 1) : tr[j].kind # "GET"

\* C3: a resume, from the menu or by the pomodoro timer ending a break while
\* the workday is paused, posts exactly once, right after fetching the status:
\* timeman.open when the fetched status carries a TIME_FINISH, timeman.pause
\* when it carries none or the fetch failed.
C3_ResumeMethodByTimeFinish ==
    [][(\/ op' = "resume"
        \/ /\ \E i \in 1..Len(trace') : trace'[i].what = "on_break_end"
           /\ auto_pause_bitrix(config)
           /\ workday.is_running /\ workday.is_paused)
       => /\ \E i \in 1..Len(trace') : trace'[i].kind = "GET"
          /\ LET g == FirstGet(trace')
             IN  /\ Len(Posted(trace')) = 1
                 /\ Len(trace') > g
                 /\ trace'[g + 1] =
                        POST(IF trace'[g].what = "status"
                                /\ remote.TIME_FINISH # None
                             THEN "timeman.open" ELSE "timeman.pause")]_vars

\* the pomodoro timer ended a break and resumed a day carrying a TIME_FINISH
C3_Witness ==
    \E i \in 1..(Len(trace) - 2) :
        /\ trace[i].what = "on_break_end"
        /\ trace[i + 1].what = "status"
        /\ trace[i + 2] = POST("timeman.open")

---------------------------------------------------------------------------
(* Properties of PomodoroTimer *)

\* the handler that ran last entered a break
BreakEntered == \E i \in 1..Len(trace) : trace[i].what = "on_break_start"

\* C4: tick() on a running timer takes one second off remaining_seconds; when
\* that leaves none in WORK, pomodoro_count grows by one and the next state is
\* LONG_BREAK if the new count is a multiple of pomodoros_until_long_break and
\* SHORT_BREAK otherwise; when it leaves none in a break, the next state is WORK.
C4_TickCountsDown ==
    [][(op' = "update_timer" /\ pomodoro.is_running)
       => LET left == pomodoro.remaining_seconds - 1
              N == config.pomodoros_until_long_break
          IN  IF left > 0
              THEN pomodoro' = [pomodoro EXCEPT !.remaining_seconds = left]
              ELSE IF pomodoro.state = "work"
              THEN /\ pomodoro'.pomodoro_count = pomodoro.pomodoro_count + 1
                   /\ pomodoro'.state =
                          IF pomodoro'.pomodoro_count % N = 0 THEN "long_break"
                          ELSE "short_break"
              ELSE /\ pomodoro.state \in Breaks
                   /\ pomodoro'.state = "work"
                   /\ pomodoro'.pomodoro_count = pomodoro.pomodoro_count]_vars

\* a one-minute work session ran out, it was the second of two until the long
\* break, and the long break began
C4_Witness ==
    /\ op = "update_timer"
    /\ BreakEntered
    /\ config.work_duration = 1
    /\ config.pomodoros_until_long_break = 2
    /\ pomodoro.pomodoro_count = 2
    /\ pomodoro.state = "long_break"

\* C5, as stated: for a timer started with start() and advanced only by ticks,
\* the (N+1)th break entered is LONG_BREAK, N being
\* pomodoros_until_long_break.
C5_BreakAfterNthIsLong ==
    (/\ ticks_only /\ op = "update_timer" /\ BreakEntered
     /\ nbreaks = config.pomodoros_until_long_break + 1)
    => pomodoro.state = "long_break"

\* C5: for a stopped timer started with start() and advanced only by ticks, the
\* Nth break entered, the one that begins when the Nth work session completes,
\* is LONG_BREAK, and the breaks before it are SHORT_BREAK.
C5_NthBreakIsLong ==
    (ticks_only /\ op = "update_timer" /\ BreakEntered)
    => /\ pomodoro.pomodoro_count = nbreaks
       /\ nbreaks = config.pomodoros_until_long_break
             => pomodoro.state = "long_break"
       /\ nbreaks < config.pomodoros_until_long_break
             => pomodoro.state = "short_break"

\* the second of two work sessions completed by ticks alone, and the second
\* break is the long one
C5_Witness ==
    /\ ticks_only /\ op = "update_timer" /\ BreakEntered
    /\ config.pomodoros_until_long_break = 2
    /\ nbreaks = 2
    /\ pomodoro.state = "long_break"

\* C6: whenever the state is LONG_BREAK, pomodoro_count is a positive multiple
\* of pomodoros_until_long_break.
C6_LongBreakOnlyAtMultiple ==
    pomodoro.state = "long_break"
    => /\ pomodoro.pomodoro_count > 0
       /\ pomodoro.pomodoro_count % config.pomodoros_until_long_break = 0

\* C7: skip() in WORK enters a break with that break's full duration, in a
\* break enters WORK with the full work duration, in STOPPED changes nothing;
\* pomodoro_count stays as it is in every case.
C7_SkipForcesTransition ==
    [][op' = "pomodoro_skip"
       => /\ pomodoro'.pomodoro_count = pomodoro.pomodoro_count
          /\ CASE pomodoro.state = "work" ->
                    /\ pomodoro'.state \in Breaks
                    /\ pomodoro'.remaining_seconds =
                           IF pomodoro'.state = "long_break"
                           THEN config.long_break * Minute
                           ELSE config.short_break * Minute
               [] pomodoro.state \in Breaks ->
                    /\ pomodoro'.state = "work"
                    /\ pomodoro'.remaining_seconds =
                           config.work_duration * Minute
               [] OTHER -> pomodoro' = pomodoro]_vars

\* a work session was skipped after one had completed: a short break of one
\* full minute, and still one completed session
C7_Witness ==
    /\ op = "pomodoro_skip"
    /\ BreakEntered
    /\ config.short_break = 1
    /\ pomodoro.state = "short_break"
    /\ pomodoro.remaining_seconds = Minute
    /\ pomodoro.pomodoro_count = 1

---------------------------------------------------------------------------
(* Properties of the tracker: pausing on breaks, the displayed times *)

\* C8: the pause mode gates the remote pause on entering a break: under
\* "never" no break posts timeman.pause; under "long_breaks_only" a LONG_BREAK
\* entered while the workday runs unpaused posts it and a SHORT_BREAK does not;
\* under "all_breaks" either kind of break entered while the workday runs
\* unpaused posts it.
C8_PauseModeGatesPause ==
    [][\A i \in 1..Len(trace') :
          trace'[i].what = "on_break_start"
          => LET posts == POST("timeman.pause") \in
                              {trace'[j] : j \in (i + 1)..Len(trace')}
                 due == workday.is_running /\ ~workday.is_paused
             IN  CASE config.bitrix_pause_mode = "never" -> ~posts
                   [] config.bitrix_pause_mode = "long_breaks_only" ->
                          posts <=> (due /\ trace'[i].state = "long_break")
                   [] config.bitrix_pause_mode = "all_breaks" ->
                          posts <=> due]_vars

Anchors(w) == <<w.start_time, w.pause_start_time, w.time_leaks_seconds>>

\* C10: the 1 Hz timer, unless its pomodoro tick calls a break callback, leaves
\* every workday field as it is; and start_time, pause_start_time and
\* time_leaks_seconds change only in start, pause, resume, stop or in a handler
\* that called a pomodoro break callback.
C10_AnchorsChangeOnlyInHandlers ==
    [][LET called == \E i \in 1..Len(trace') :
                         trace'[i].what \in {"on_break_start", "on_break_end"}
       IN  /\ (op' = "update_timer" /\ ~called) => workday' = workday
           /\ Anchors(workday') # Anchors(workday)
              => \/ op' \in {"start", "pause", "resume", "stop"}
                 \/ called]_vars

\* the 1 Hz timer wrote the pause time of a paused workday, and no break
\* callback ran
C10_Witness ==
    /\ op = "update_timer"
    /\ ~BreakEntered
    /\ workday.is_paused /\ workday.pause_start_time # None
    /\ trace[Len(trace)] =
           TITLE([icon |-> "pause", text |-> get_pause_time(workday, now)])

---------------------------------------------------------------------------
(* Properties of WorkdayManager under failures and remote changes *)

\* start, pause, resume and stop of the workday
UserActions == {"start", "pause", "resume", "stop"}

\* a remote call of the handler that ran last failed: a get_status() returned
\* nothing or a POST was unsuccessful
CallFailed(tr) ==
    \E i \in 1..Len(tr) : tr[i].what = "no status" \/ tr[i].kind = "FAILED"

\* a get_status() of the handler that ran last returned a status
FetchedStatus(tr) == \E i \in 1..Len(tr) : tr[i].what = "status"

\* C11: when a remote call of start, pause, resume or stop fails, is_running,
\* is_paused, start_time, pause_start_time and time_leaks_seconds keep the
\* values they had before the operation.
C11_FailureLeavesStateUnchanged ==
    [][(op' \in UserActions /\ CallFailed(trace')) => workday' = workday]_vars

\* C12: after start, pause, resume or stop fetched the status and returned
\* True, the workday is running exactly when the remote STATUS is OPENED or
\* PAUSED, and paused exactly when it is PAUSED.
C12_FlagsAgreeWithRemote ==
    (op \in UserActions /\ ret = "True" /\ FetchedStatus(trace))
    => /\ workday.is_running <=> remote.STATUS \in {"OPENED", "PAUSED"}
       /\ workday.is_paused <=> remote.STATUS = "PAUSED"

---------------------------------------------------------------------------
(* Properties of parse_time_leaks *)

\* C13: parse_time_leaks maps three colon-separated parts that are integers,
\* none negative, minutes and seconds below 60, to HH*3600 + MM*60 + SS, and
\* every other value (empty, not three parts, a part that is no integer, a
\* negative part, minutes or seconds of 60 or more) to 0; the result is never
\* negative.
C13_ParseTimeLeaks ==
    parse_output # None
    => LET p == parse_input
           well_formed ==
               /\ Len(p) = 3
               /\ \A i \in 1..3 : p[i].int /\ p[i].val >= 0
               /\ p[2].val < 60 /\ p[3].val < 60
       IN  /\ Val(parse_output) =
                  IF well_formed
                  THEN p[1].val * 3600 + p[2].val * 60 + p[3].val
                  ELSE 0
           /\ Val(parse_output) >= 0

\* "01:41:26" was parsed to 6086
C13_Witness ==
    /\ JoinParts(parse_input) = <<"0", "1", ":", "4", "1", ":", "2", "6">>
    /\ parse_output = Some(6086)

\* C14: whenever stop() returns True the workday is stopped locally:
\* is_running and is_paused are false, start_time and pause_start_time are
\* cleared and time_leaks_seconds is 0.
C14_StopTrueMeansStopped ==
    (op = "stop" /\ ret = "True") => workday = WorkdayInit

\* C15: through the actions the menu permits, is_running implies that
\* start_time is set, and is_paused implies is_running and that
\* pause_start_time is set.
C15_FlagsHaveAnchors ==
    /\ workday.is_running => workday.start_time # None
    /\ workday.is_paused
       => (workday.is_running /\ workday.pause_start_time # None)

\* C16: after pause() returned True the remote workday is PAUSED, whatever its
\* status was when pause() was invoked.
C16_PauseTrueMeansRemotePaused ==
    (op = "pause" /\ ret = "True") => remote.STATUS = "PAUSED"

---------------------------------------------------------------------------
(* Properties of the order and the effect of the remote calls *)

\* C17: resume() clears the pause (is_paused false, pause_start_time cleared,
\* time_leaks_seconds taken from the status fetched after the POST) and
\* returns True only when the POST succeeded and that status reports OPENED;
\* in every other case it returns False and changes no field.
C17_ResumeClearsOnlyWhenOpened ==
    [][op' = "resume"
       => LET opened == /\ Len(trace') = 3
                        /\ trace'[2].kind = "POST"
                        /\ trace'[3].kind = "GET"
                        /\ trace'[3].state = "OPENED"
          IN  IF opened
              THEN /\ ret' = "True"
                   /\ workday' =
                          [workday EXCEPT
                             !.is_paused = FALSE,
                             !.pause_start_time = None,
                             !.time_leaks_seconds = remote'.TIME_LEAKS]
              ELSE /\ ret' = "False"
                   /\ workday' = workday]_vars

\* resume() posted, the day is OPENED on the server, the status after the POST
\* could not be fetched, and the workday is still paused locally
C17_Witness ==
    /\ op = "resume" /\ ret = "False"
    /\ Len(trace) = 3
    /\ trace[2].kind = "POST"
    /\ trace[3].what = "no status"
    /\ remote.STATUS = "OPENED"
    /\ workday.is_paused /\ workday.pause_start_time # None

\* C18: pause() fetches the status first and posts nothing when that fetch
\* returned nothing; when it returns True, time_leaks_seconds is the TIME_LEAKS
\* the day had before the POST and pause_start_time is this instant.
C18_PauseFetchesFirst ==
    [][op' = "pause"
       => /\ trace' # <<>> /\ trace'[1].kind = "GET"
          /\ trace'[1].what = "no status"
             => (Posted(trace') = <<>> /\ ret' = "False")
          /\ Posted(trace') # <<>>
             => (Len(trace') >= 2 /\ trace'[2] = POST("timeman.pause")
                 /\ Len(Posted(trace')) = 1)
          /\ ret' = "True"
             => /\ workday'.is_paused
                /\ workday'.time_leaks_seconds = remote.TIME_LEAKS
                /\ workday'.pause_start_time = Some(datetime_now(now))]_vars

\* pause() returned True on a day that carried pause seconds
C18_Witness ==
    /\ op = "pause" /\ ret = "True"
    /\ trace[1].what = "status"
    /\ workday.time_leaks_seconds > 0
    /\ workday.pause_start_time = Some(datetime_now(now))

\* C19: stop() posts the close only after a fetch that returned a status whose
\* STATUS is not CLOSED; when the fetch fails it posts nothing and returns
\* False; when the fetched STATUS is CLOSED it posts nothing and returns True.
C19_StopClosesOnlyOpenDay ==
    [][op' = "stop"
       => /\ trace' # <<>> /\ trace'[1].kind = "GET"
          /\ trace'[1].what = "no status"
             => (Posted(trace') = <<>> /\ ret' = "False")
          /\ (trace'[1].what = "status" /\ remote.STATUS = "CLOSED")
             => (Posted(trace') = <<>> /\ ret' = "True")
          /\ Posted(trace') # <<>>
             => /\ Posted(trace') = <<POST("timeman.close")>>
                /\ trace'[1].what = "status"
                /\ remote.STATUS # "CLOSED"]_vars

\* stop() found the day CLOSED, posted nothing and returned True
C19_Witness ==
    /\ op = "stop" /\ ret = "True"
    /\ Len(trace) = 1
    /\ trace[1].what = "status" /\ trace[1].state = "CLOSED"

\* C20: when the first get_status() of start() fails, start() posts nothing,
\* returns False and changes neither the remote day nor the local fields.
C20_StartNeedsStatus ==
    [][(op' = "start" /\ trace' # <<>> /\ trace'[1].what = "no status")
       => /\ Posted(trace') = <<>>
          /\ ret' = "False"
          /\ remote' = remote
          /\ workday' = workday]_vars

---------------------------------------------------------------------------
(* Properties of the two implementations of start *)

\* a start that synchronised: the workday runs and nothing was posted
SyncedWithDay == workday'.is_running /\ Posted(trace') = <<>>

\* C21: a start that fetched a status synchronises with the remote day exactly
\* when the day's STATUS is OPENED or PAUSED, its TIME_START is present and at
\* most 24 hours old, and otherwise posts the opening of a new day; this holds
\* of WorkdayManager.start and of the refactored start_workday alike, so both
\* take the same branch on every remote status.
C21_StartsTakeSameBranch ==
    [][op' \in {"start", "tracker_start"} /\ FetchedFirst(trace')
       => /\ SyncedWithDay
             <=> /\ remote.STATUS \in {"OPENED", "PAUSED"}
                 /\ remote.TIME_START # None
                 /\ now - Val(remote.TIME_START) <= DayHours * Hour
          /\ ~SyncedWithDay => Posted(trace') # <<>>]_vars

---------------------------------------------------------------------------
(* Properties of BitrixClient *)

\* an answer the retry strategy retries: no answer, or a status of the forcelist
Transient(answer) ==
    answer.err # "" \/ answer.status_code \in {429, 500, 502, 503, 504}

---------------------------------------------------------------------------
(* Invariants of PomodoroTimer *)

\* C23: in every reachable state of the pomodoro timer is_running holds exactly
\* when state is not STOPPED, and a STOPPED timer has remaining_seconds = 0 and
\* pomodoro_count = 0.
C23_StoppedTimerIsReset ==
    /\ pomodoro.is_running <=> pomodoro.state # "stopped"
    /\ pomodoro.state = "stopped"
       => pomodoro.remaining_seconds = 0 /\ pomodoro.pomodoro_count = 0

\* stop() has just run: the timer is stopped and told its listener so
C23_Witness ==
    /\ op = "pomodoro_stop"
    /\ pomodoro.state = "stopped"
    /\ ~pomodoro.is_running
    /\ trace = <<CALLBACK("on_state_change", "stopped", 0)>>

\* the minutes configured for the session of a state
DurationOf(state) ==
    IF state = "work" THEN config.work_duration
    ELSE IF state = "short_break" THEN config.short_break
    ELSE config.long_break

\* C24: when every configured duration is at least one minute, a running
\* pomodoro timer, after each start, tick or skip, has remaining_seconds between
\* 1 and the full duration in seconds of the session of its state; it is never
\* zero or negative.
C24_RemainingWithinSession ==
    /\ config.work_duration >= 1
    /\ config.short_break >= 1
    /\ config.long_break >= 1
    /\ pomodoro.is_running
    => /\ pomodoro.remaining_seconds >= 1
       /\ pomodoro.remaining_seconds <= DurationOf(pomodoro.state) * 60

\* a tick at remaining_seconds = 1 has just ended a work session of one minute
\* or more and entered a break with its full duration
C24_Witness ==
    /\ config.work_duration >= 1
    /\ config.short_break >= 1
    /\ config.long_break >= 1
    /\ op = "update_timer"
    /\ BreakEntered
    /\ pomodoro.state \in Breaks
    /\ pomodoro.remaining_seconds = DurationOf(pomodoro.state) * 60

---------------------------------------------------------------------------
(* The cycle of the pomodoro timer under repeated ticks *)

\* a tick of the running timer has ended the session it was in
SessionEnded ==
    op' = "update_timer" /\ pomodoro.is_running
    /\ pomodoro'.state # pomodoro.state

\* every WORK session is eventually followed by a break (while the count of
\* sessions is below the bound of the model) and every break by WORK
Cycles ==
    /\ (pomodoro.state = "work" /\ pomodoro.pomodoro_count < MaxCount)
          ~> (pomodoro.state \in Breaks)
    /\ (pomodoro.state \in Breaks) ~> (pomodoro.state = "work")

\* C25 as stated: a tick of the running timer ends the session exactly when it
\* is the (D*60)th tick of the session, D being the minutes configured for the
\* session's state.
C25_SessionEndsOnTickDTimes60 ==
    [][op' = "update_timer" /\ pomodoro.is_running
       => (SessionEnded
           <=> session_ticks + 1 = DurationOf(pomodoro.state) * 60)]_vars

\* C25: under repeated ticks with no stop the running timer cycles: every WORK
\* session is eventually followed by a break and every break by WORK; a session
\* configured with D >= 1 minutes ends on exactly its (D*60)th tick, a session
\* configured with 0 minutes on its first tick; the session that follows WORK
\* is a break and the one that follows a break is WORK.
C25_TimerCycles ==
    /\ Cycles
    /\ [][op' = "update_timer" /\ pomodoro.is_running
          => /\ SessionEnded
                <=> session_ticks + 1 =
                      (IF DurationOf(pomodoro.state) >= 1
                       THEN DurationOf(pomodoro.state) * 60 ELSE 1)
             /\ SessionEnded
                => IF pomodoro.state = "work" THEN pomodoro'.state \in Breaks
                   ELSE pomodoro'.state = "work"]_vars

\* by ticks alone a one-minute work session has ended in a one-minute break,
\* which has taken 59 of its 60 ticks
C25_Witness ==
    /\ ticks_only
    /\ config.work_duration = 1
    /\ nbreaks >= 1
    /\ pomodoro.state \in Breaks
    /\ DurationOf(pomodoro.state) = 1
    /\ session_ticks = 59
    /\ pomodoro.remaining_seconds = 1

---------------------------------------------------------------------------
(* The callbacks of the pomodoro timer *)

\* the handler that ran called back `name`
CalledBack(tr, name) == \E i \in 1..Len(tr) : tr[i].what = name

\* C26: the break callbacks alternate over every sequence of start, stop, skip
\* and tick: on_break_start is only called when no break is open, on_break_end
\* only when one is, and a break that was entered with on_break_start is never
\* left without on_break_end, so that the next on_break_start always comes
\* after the on_break_end of the break before it.
C26_BreakCallbacksAlternate ==
    [][/\ CalledBack(trace', "on_break_start") => pomodoro.state \notin Breaks
       /\ CalledBack(trace', "on_break_end") => pomodoro.state \in Breaks
       /\ pomodoro.state \in Breaks /\ pomodoro'.state \notin Breaks
          => CalledBack(trace', "on_break_end")]_vars

\* the callbacks a handler made, in order
Callbacks(tr) == SelectSeq(tr, LAMBDA e : e.kind = "CALLBACK")

\* C27: tick() on a stopped timer changes no field and calls nothing back.  On a
\* running timer it calls on_state_change exactly once, as its last callback,
\* with the state and remaining_seconds it leaves; on_break_start is called
\* with the break state it leaves already set; on_break_end is called with the
\* state still the break it came from, and the tick leaves WORK.
C27_TickCallbacks ==
    [][op' = "update_timer"
       => LET cb == Callbacks(trace')
          IN  IF ~pomodoro.is_running
              THEN /\ pomodoro' = pomodoro
                   /\ cb = <<>>
                   /\ \A net \in Nets : pomodoro_tick(Cur, now, net) = Cur
              ELSE /\ cb # <<>>
                   /\ cb[Len(cb)] = CALLBACK("on_state_change", pomodoro'.state,
                                             pomodoro'.remaining_seconds)
                   /\ \A i \in 1..(Len(cb) - 1) :
                        \/ /\ cb[i].what = "on_break_start"
                           /\ cb[i].state \in Breaks
                           /\ cb[i].state = pomodoro'.state
                           /\ pomodoro.state = "work"
                        \/ /\ cb[i].what = "on_break_end"
                           /\ cb[i].state \in Breaks
                           /\ cb[i].state = pomodoro.state
                           /\ pomodoro'.state = "work"
                   /\ Len(cb) <= 2
                   /\ Len(cb) = 2 <=> pomodoro'.state # pomodoro.state]_vars

\* a tick has just ended a break: on_break_end was called in the break state,
\* then on_state_change with WORK
C27_Witness ==
    /\ op = "update_timer"
    /\ pomodoro.state = "work"
    /\ Len(Callbacks(trace)) = 2
    /\ Callbacks(trace)[1].what = "on_break_end"
    /\ Callbacks(trace)[1].state \in Breaks
    /\ Callbacks(trace)[2] =
          CALLBACK("on_state_change", "work", config.work_duration * 60)

---------------------------------------------------------------------------
(* Properties of the auto-pause on breaks *)

\* the handler posted, the POST succeeded, and the status fetched after it had
\* the given STATUS
ConfirmedAs(tr, status) ==
    /\ \A i \in 1..Len(tr) : tr[i].kind # "FAILED"
    /\ \E i \in 1..Len(tr) : \E j \in (i + 1)..Len(tr) :
         /\ tr[i].kind = "POST"
         /\ tr[j].kind = "GET" /\ tr[j].what = "status" /\ tr[j].state = status
         /\ \A k \in (j + 1)..Len(tr) : tr[k].kind # "GET"

\* C28: when the pomodoro timer enters a break, a POST is made only if the
\* workday is running and not paused, and the workday's fields change exactly
\* when the POST succeeded and the status fetched after it is PAUSED: then
\* is_paused is set, pause_start_time is the current time and
\* time_leaks_seconds the TIME_LEAKS of that status.  When it ends a break, a
\* POST is made only if the workday is running and paused, and the fields change
\* exactly when the POST succeeded and the status fetched after it is OPENED:
\* then is_paused and pause_start_time are cleared and time_leaks_seconds is the
\* TIME_LEAKS of that status.  In every other case the fields stay as they are.
C28_AutoPauseConfirmedByStatus ==
    [][/\ CalledBack(trace', "on_break_start")
          => /\ Posted(trace') # <<>>
                => /\ workday.is_running /\ ~workday.is_paused
                   /\ Posted(trace') = <<POST("timeman.pause")>>
             /\ IF Posted(trace') # <<>> /\ ConfirmedAs(trace', "PAUSED")
                THEN workday' =
                       [workday EXCEPT
                          !.is_paused = TRUE,
                          !.pause_start_time = Some(datetime_now(now)),
                          !.time_leaks_seconds = remote'.TIME_LEAKS]
                ELSE workday' = workday
       /\ CalledBack(trace', "on_break_end")
          => /\ Posted(trace') # <<>>
                => /\ workday.is_running /\ workday.is_paused
                   /\ Len(Posted(trace')) = 1
             /\ IF Posted(trace') # <<>> /\ ConfirmedAs(trace', "OPENED")
                THEN workday' =
                       [workday EXCEPT
                          !.is_paused = FALSE,
                          !.pause_start_time = None,
                          !.time_leaks_seconds = remote'.TIME_LEAKS]
                ELSE workday' = workday]_vars

\* a break was entered while the workday ran unpaused; the POST succeeded, but
\* the day had been paused elsewhere, so the status after it is OPENED and the
\* workday's fields are as before
C28_Witness ==
    /\ CalledBack(trace, "on_break_start")
    /\ Posted(trace) = <<POST("timeman.pause")>>
    /\ ConfirmedAs(trace, "OPENED")
    /\ workday.is_running /\ ~workday.is_paused
    /\ workday.pause_start_time = None

===========================================================================
